---- MODULE Spec2Model ----
(***************************************************************************)
(* A model of the hephix backend prototype: the Darel session cookie cache *)
(* (services/darel_store.py), the Darel AJAX search adapter, the GraphQL   *)
(* request helper (services/graphql_service.py) and the HTTP endpoints of  *)
(* routers/chat.py that fan a query out to the two stores.                 *)
(*                                                                         *)
(* Python values whose type varies are tagged records: None is             *)
(* [some |-> FALSE], a present value v is [some |-> TRUE, val |-> v]; JSON *)
(* values carry a tag t \in {"null","num","str","arr","obj"} and their    *)
(* content in a field of their own (n, s, a, o).  time.time() is modelled  *)
(* in whole seconds.                                                       *)
(***************************************************************************)
EXTENDS Integers, Sequences, FiniteSets, TLC

\* ------------------------------------------------------------------ bounds
NumThreads == 2
MaxTicks == 3
MaxConcTicks == 1
MaxAcq == 3
MaxProducts == 2
MaxPriceEntries == 3
MaxLinks == 3

\* ------------------------------------------------------- program constants
DAREL_COOKIE_TTL_SECONDS == 30 * 60

\* ----------------------------------------------------------- Python values
None == [some |-> FALSE]
Some(v) == [some |-> TRUE, val |-> v]

\* Python truthiness of an optional list: None and [] are falsy.
Truthy(x) == x.some /\ Len(x.val) > 0

\* ------------------------------------------------------------------- state
VARIABLES
    clock,          \* time.time(), in seconds
    ticks,          \* how many times the clock has advanced (bounded)
    cache,          \* _darel_cookie_cache: [cookies, expires_at]
    cacheBy,        \* which acquisition wrote each field of the cache (0: import time)
    storedAt,       \* the `now` of the call that last wrote expires_at
    acquisitions,   \* how many times the acquisition procedure was entered
    lastOutcome,    \* how the latest finished _get_darel_cookies call ended
    pc,             \* per thread: position in the handler
    req,            \* per thread: the call's arguments
    frame,          \* per thread: locals of _get_darel_cookies
    log,            \* per thread: upstream interactions of the call, in order
    jar,            \* per thread: client.cookies of the call's httpx.Client
    postResp,       \* per thread: what the search POST produced
    dres,           \* per thread: outcome of _darel_search_with_error
    ares,           \* per thread: outcome of search_products_structured
    results,        \* per thread: the `results` dict of unified_search
    resp,           \* per thread: what the entry point gave its caller
    gql,            \* a call of execute_graphql_request on its own
    priced,         \* a price resolution of the source A normalizer on its own
    scrape          \* a call of the search_products tool on its own

vars == <<clock, ticks, cache, cacheBy, storedAt, acquisitions, lastOutcome,
          pc, req, frame, log, jar, postResp, dres, ares, results, resp, gql,
          priced, scrape>>

Threads == 1 .. NumThreads
SeqThreads == {1}

\* -------------------------------------------------------------- JSON values
JNull == [t |-> "null"]
JNum(n) == [t |-> "num", n |-> n]
JStr(s) == [t |-> "str", s |-> s]
JArr(a) == [t |-> "arr", a |-> a]
JObj(f) == [t |-> "obj", o |-> f]
EmptyObj == JObj([k \in {} |-> JNull])

\* Python truthiness of a decoded JSON value.
JTruthy(x) ==
    CASE x.t = "null" -> FALSE
      [] x.t = "num" -> x.n # 0
      [] x.t = "str" -> x.s # ""
      [] x.t = "arr" -> Len(x.a) > 0
      [] x.t = "obj" -> DOMAIN x.o # {}

\* dict.get(k) on a decoded JSON object: None (JSON null) when the key is absent.
Get(d, k) == IF k \in DOMAIN d.o THEN d.o[k] ELSE JNull

\* dict.get(k, {}) on a decoded JSON object.
GetOrEmpty(d, k) == IF k \in DOMAIN d.o THEN d.o[k] ELSE EmptyObj

\* `a or b`
Or(a, b) == IF JTruthy(a) THEN a ELSE b

\* str(int): the decimal rendering, as a sequence of characters.
Digit(d) == <<"0", "1", "2", "3", "4", "5", "6", "7", "8", "9">>[d + 1]

RECURSIVE StrNat(_)
StrNat(n) == IF n < 10 THEN <<Digit(n)>> ELSE StrNat(n \div 10) \o <<Digit(n % 10)>>

Str(n) == IF n < 0 THEN <<"-">> \o StrNat(0 - n) ELSE StrNat(n)

\* ------------------------------------------------- the session cookie cache
\* _darel_cookie_cache as the module is imported.
InitCache == [cookies |-> None, expires_at |-> 0]

Cookie(name, id) == [name |-> name, value |-> id, domain |-> ".darel.lv", path |-> "/"]

\* What context.cookies() can hold after acquisition number id: nothing, one
\* session cookie, or a nameless cookie followed by the session cookie.
CookieLists(id) ==
    { <<>>, <<Cookie("sid", id)>>, <<Cookie("", id), Cookie("sid", id)>> }

\* How the acquisition procedure (lines 24-46) can end.
AcquireOutcomes(id) ==
    { [kind |-> "import_error"], [kind |-> "raise"] }
        \cup { [kind |-> "cookies", cookies |-> c] : c \in CookieLists(id) }

\* A small choice of the same, for runs with several threads.
FewAcquireOutcomes(id) ==
    { [kind |-> "raise"], [kind |-> "cookies", cookies |-> <<Cookie("sid", id)>>] }

\* A hit test that gives the entry up one second early.
HitOffByOne(cached, expires_at, now) == Truthy(cached) /\ expires_at > now + 1

\* A hit test that still serves the entry at its expiry time.
HitInclusive(cached, expires_at, now) == Truthy(cached) /\ expires_at >= now

\* The cache-hit test of line 21.
Hit(cached, expires_at, now) == Truthy(cached) /\ expires_at > now

\* A handling of the outcome without the except clause of line 45, and which
\* stores an empty cookie list.
AfterAcquireLeaky(o) ==
    CASE o.kind = "import_error" -> "none"
      [] o.kind = "raise" -> "raise"
      [] o.kind = "cookies" -> "store"

\* What _get_darel_cookies does with the acquisition's outcome (lines 26-27,
\* 45-49): "raise" it to the caller, "none" (return None) or "store".
AfterAcquire(o) ==
    CASE o.kind = "import_error" -> "none"
      [] o.kind = "raise" -> "none"
      [] o.kind = "cookies" -> IF Len(o.cookies) = 0 THEN "none" ELSE "store"

\* An expiry one second short of the time to live.
ExpiryShort(now) == now + DAREL_COOKIE_TTL_SECONDS - 1

\* The expiry written at line 52.
Expiry(now) == now + DAREL_COOKIE_TTL_SECONDS

NoFrame ==
    [now |-> 0, cached |-> None, expires_at |-> 0, id |-> 0,
     outcome |-> [kind |-> "none"], cookies |-> <<>>, ret |-> None,
     raised |-> FALSE, returned |-> FALSE, hit |-> FALSE,
     cachedBy |-> 0, expiresBy |-> 0,
     snapCache |-> InitCache, snapStoredAt |-> 0, snapAcq |-> 0]

\* client.cookies after lines 86-97: nameless cookies are skipped, a missing
\* path becomes "/".
LoadJar(ret) ==
    IF Truthy(ret)
    THEN { [name |-> ret.val[i].name, value |-> ret.val[i].value,
            domain |-> ret.val[i].domain,
            path |-> IF ret.val[i].path = "" THEN "/" ELSE ret.val[i].path] :
           i \in { j \in 1 .. Len(ret.val) : ret.val[j].name # "" } }
    ELSE {}

\* ------------------------------------------------ the Darel search adapter
\* What the landing-page GET of line 99 can do: answer (any status: it is
\* not looked at), or raise an httpx transport error.
GetOutcomes == {"ok", "TimeoutException", "ConnectError"}

NotJson == [json |-> FALSE]
Json(v) == [json |-> TRUE, val |-> v]

Img(u) == JObj("url" :> JStr(u))

\* Entries the upstream may put in `products`.
EntryFull ==
    JObj("id_product" :> JNum(1) @@ "name" :> JStr("Hammer") @@
         "price" :> JStr("9,99 EUR") @@ "link" :> JStr("https://darel.lv/p/1") @@
         "cover" :> JObj("bySize" :> JObj("home_default" :> Img("home.jpg")) @@
                         "large" :> Img("large.jpg")))

EntryBare == JObj("id_product" :> JNum(2) @@ "cover" :> JNull)

EntryNotObject == JStr("oops")

EntryNullSize ==
    JObj("id_product" :> JNum(3) @@ "name" :> JStr("Saw") @@
         "cover" :> JObj("bySize" :> JObj("home_default" :> JNull)))

EntryNoPrice == JObj("id_product" :> JNum(4) @@ "name" :> JStr("Nails"))

ProductEntries == {EntryFull, EntryBare, EntryNotObject, EntryNullSize, EntryNoPrice}

\* httpx's Response.is_success, which raise_for_status tests.
IsSuccess(status) == status >= 200 /\ status <= 299

DarelOk(rs, error) == [raised |-> "", results |-> rs, error |-> error]
DarelRaised(exc) == [raised |-> exc, results |-> <<>>, error |-> None]

\* The thumbnail `or` chain of lines 122-129: each operand is
\* holder.get(key, {}).get("url"); the first truthy one wins, the last one is
\* the value when none is; .get on a non-dict raises AttributeError.
RECURSIVE ThumbScan(_, _)
ThumbScan(cands, i) ==
    LET e == GetOrEmpty(cands[i].holder, cands[i].key) IN
    IF e.t # "obj" THEN [raised |-> TRUE, val |-> JNull]
    ELSE LET u == Get(e, "url") IN
         IF JTruthy(u) \/ i = Len(cands) THEN [raised |-> FALSE, val |-> u]
         ELSE ThumbScan(cands, i + 1)

\* One iteration of the loop of lines 117-141 on a dict entry p.
Normalize(p) ==
    LET cover == Or(Get(p, "cover"), EmptyObj) IN
    IF cover.t # "obj" THEN [raised |-> TRUE]
    ELSE LET by_size == Or(Get(cover, "bySize"), EmptyObj) IN
         IF by_size.t # "obj" THEN [raised |-> TRUE]
         ELSE LET thumb == ThumbScan(
                      << [holder |-> by_size, key |-> "home_default"],
                         [holder |-> by_size, key |-> "medium_default"],
                         [holder |-> by_size, key |-> "small_default"],
                         [holder |-> cover, key |-> "medium"],
                         [holder |-> cover, key |-> "small"],
                         [holder |-> cover, key |-> "large"] >>, 1) IN
              IF thumb.raised THEN [raised |-> TRUE]
              ELSE [raised |-> FALSE,
                    rec |-> [id_product |-> Get(p, "id_product"),
                             name |-> Get(p, "name"),
                             price |-> Get(p, "price"),
                             url |-> Or(Get(p, "url"), Get(p, "link")),
                             reference |-> Get(p, "reference"),
                             manufacturer_name |-> Get(p, "manufacturer_name"),
                             category_name |-> Get(p, "category_name"),
                             thumbnail |-> thumb.val]]

\* The loop of lines 116-142 over a list of entries, from entry i on.
RECURSIVE CompactFrom(_, _)
CompactFrom(items, i) ==
    IF i > Len(items) THEN DarelOk(<<>>, None)
    ELSE IF items[i].t # "obj" THEN CompactFrom(items, i + 1)
    ELSE LET n == Normalize(items[i]) IN
         IF n.raised THEN DarelRaised("AttributeError")
         ELSE LET rest == CompactFrom(items, i + 1) IN
              IF rest.raised # "" THEN rest
              ELSE DarelOk(<<n.rec>> \o rest.results, None)

\* `for p in products` on whatever `products` decoded to: a string yields its
\* characters and a dict its keys (none is a dict), null and numbers are not
\* iterable.
Compact(products) ==
    CASE products.t = "arr" -> CompactFrom(products.a, 1)
      [] products.t \in {"str", "obj"} -> DarelOk(<<>>, None)
      [] products.t \in {"null", "num"} -> DarelRaised("TypeError")

\* A handling of the POST without the except clause of line 109.
HandlePostRaising(o) ==
    IF o.kind = "raise" \/ ~IsSuccess(o.status) THEN DarelRaised("HTTPStatusError")
    ELSE DarelOk(<<>>, None)

\* Lines 106-142: what _darel_search_with_error makes of the POST's outcome.
HandlePost(o) ==
    IF o.kind = "raise" THEN DarelRaised(o.exc)
    ELSE IF ~IsSuccess(o.status)
    THEN DarelOk(<<>>, Some([text |-> "Darel search failed with HTTP",
                             status |-> o.status]))
    ELSE IF ~o.body.json THEN DarelRaised("JSONDecodeError")
    ELSE IF o.body.val.t # "obj" THEN DarelRaised("AttributeError")
    ELSE Compact(IF "products" \in DOMAIN o.body.val.o
                 THEN o.body.val.o["products"] ELSE JArr(<<>>))

\* ------------------------------------------------------ the GraphQL helper
\* str.strip() and str.lower(), on the strings the model uses.
Strip(s) ==
    CASE s = " " -> ""
      [] s = " hammer " -> "hammer"
      [] OTHER -> s

Lower(s) ==
    CASE s = "Darel" -> "darel"
      [] s = "DEPO" -> "depo"
      [] s = "Both" -> "both"
      [] OTHER -> s

\* `not s or not s.strip()`
Blank(s) == s = "" \/ Strip(s) = ""

\* `"errors" in data`: a key of a dict, an element of a list, a substring of
\* a string; TypeError on None and on a number.
HasErrors(data) ==
    CASE data.t = "obj" -> "errors" \in DOMAIN data.o
      [] data.t = "arr" -> \E i \in 1 .. Len(data.a) : data.a[i] = JStr("errors")
      [] data.t = "str" -> data.s = "errors"

GqlRaised(exc, n) == [raised |-> exc, data |-> JNull, posts |-> n]
GqlReturned(data) == [raised |-> "", data |-> data, posts |-> 1]

\* execute_graphql_request(endpoint, query) when the POST of line 43 is
\* answered by `answer`: the exception raised or the value returned, and the
\* number of POSTs made.
execute_graphql_request(endpoint, query, answer) ==
    IF Blank(endpoint) \/ Blank(query) THEN GqlRaised("GraphQLRequestError", 0)
    ELSE IF answer.kind = "raise" THEN GqlRaised("GraphQLRequestError", 1)
    ELSE IF ~IsSuccess(answer.status) THEN GqlRaised("GraphQLRequestError", 1)
    ELSE IF ~answer.body.json THEN GqlRaised("GraphQLRequestError", 1)
    ELSE IF answer.body.val.t \in {"null", "num"} THEN GqlRaised("TypeError", 1)
    ELSE IF HasErrors(answer.body.val) THEN GqlRaised("GraphQLRequestError", 1)
    ELSE GqlReturned(answer.body.val)

\* What the GraphQL endpoint may answer.
GqlBodies ==
    { NotJson, Json(JNull), Json(JNum(7)), Json(JStr("ok")), Json(JArr(<<>>)),
      Json(JObj("errors" :> JArr(<<JStr("boom")>>))),
      Json(JObj("errors" :> JNull @@ "data" :> EmptyObj)),
      Json(JObj("data" :> EmptyObj)), Json(EmptyObj) }

GqlAnswers ==
    { [kind |-> "raise", exc |-> e] : e \in {"ConnectTimeout", "ConnectError"} }
        \cup { [kind |-> "response", status |-> st, body |-> b] :
               st \in {200, 201, 302, 404, 500}, b \in GqlBodies }

\* -------------------------------------------------- the Depo (source A) fetch
\* search_products_structured is imported by routers/chat.py and is not in
\* services/depo_store.py; it is modelled on the specification's source A
\* adapter: one structured request for clamp(limit, 1, 50) rows sent with
\* execute_graphql_request, whose error it lets through, and one normalized
\* record per product of the payload.
Clamp(n, lo, hi) == IF n < lo THEN lo ELSE IF n > hi THEN hi ELSE n

DepoItem(i) == JObj("id" :> JNum(100 + i) @@ "name" :> JStr("Depo item"))

DepoData(n) == Json(JObj("data" :> JObj("products" :> JArr([i \in 1 .. n |-> DepoItem(i)]))))

DepoAnswers ==
    { [kind |-> "raise", exc |-> "ConnectTimeout"],
      [kind |-> "response", status |-> 500, body |-> NotJson],
      [kind |-> "response", status |-> 200,
       body |-> Json(JObj("errors" :> JArr(<<JStr("boom")>>)))] }
        \cup { [kind |-> "response", status |-> 200, body |-> DepoData(n)] :
               n \in 0 .. MaxProducts }

DepoNormalize(item) == [id |-> Get(item, "id"), name |-> Get(item, "name")]

search_products_structured(q, limit, answer) ==
    LET out == execute_graphql_request("https://online.depo.lv/graphql", "query", answer) IN
    IF out.raised # "" THEN [raised |-> out.raised, records |-> <<>>]
    ELSE LET items == out.data.o["data"].o["products"].a IN
         [raised |-> "", records |-> [i \in 1 .. Len(items) |-> DepoNormalize(items[i])]]

\* The price resolution of the source A normalizer, which like
\* search_products_structured is not in services/depo_store.py; it is
\* modelled on the specification's resolution policy. A price entry is keyed
\* by its tier and may carry a VAT-inclusive price.
PriceTiers == {"promo", "standard", "member"}

PriceEntry(tier, vat) == [tier |-> tier, vat |-> vat]

PriceEntriesOf == { PriceEntry(tr, v) : tr \in PriceTiers, v \in {None, Some(7), Some(10)} }

PriceLists == UNION { [1 .. n -> PriceEntriesOf] : n \in 0 .. MaxPriceEntries }

\* One scan of the entries, from entry i on, for the first entry of the tier
\* that carries a VAT-inclusive price.
RECURSIVE ScanTier(_, _, _)
ScanTier(entries, tier, i) ==
    IF i > Len(entries) THEN None
    ELSE IF entries[i].tier = tier /\ entries[i].vat.some THEN entries[i].vat
    ELSE ScanTier(entries, tier, i + 1)

\* The "not available" sentinel.
NotAvailable == [some |-> FALSE, text |-> "not available"]

\* A single scan that takes the first entry of either tier.
RECURSIVE ScanEither(_, _)
ScanEither(entries, i) ==
    IF i > Len(entries) THEN NotAvailable
    ELSE IF entries[i].tier \in {"promo", "standard"} /\ entries[i].vat.some
    THEN entries[i].vat
    ELSE ScanEither(entries, i + 1)

ResolveSinglePass(entries) == ScanEither(entries, 1)

\* The promotional tier's scan first, then the standard tier's, then the
\* sentinel.
ResolvePrice(entries) ==
    LET promo == ScanTier(entries, "promo", 1) IN
    IF promo.some THEN promo
    ELSE LET standard == ScanTier(entries, "standard", 1) IN
         IF standard.some THEN standard ELSE NotAvailable

\* --------------------------------------------------------- upstream B's say
ProductLists == UNION { [1 .. n -> ProductEntries] : n \in 0 .. MaxProducts }

Products(list) == Json(JObj("products" :> JArr(list)))

\* Bodies of a 2xx answer: not JSON, JSON that is no object, an object
\* without `products`, `products` that is no array, and product arrays.
PostBodies ==
    { NotJson, Json(JNull), Json(JArr(<<>>)), Json(EmptyObj),
      Json(JObj("products" :> JNull)), Json(JObj("products" :> JStr("none"))) }
        \cup { Products(l) : l \in ProductLists }

PostOutcomes ==
    { [kind |-> "raise", exc |-> e] : e \in {"TimeoutException", "ConnectError"} }
        \cup { [kind |-> "response", status |-> 200, body |-> b] : b \in PostBodies }
        \cup { [kind |-> "response", status |-> st, body |-> b] :
               st \in {204, 304, 403, 503}, b \in {NotJson, Products(<<EntryFull>>)} }

\* Smaller choices of the same: every status, and a single answer.
SeqPostOutcomes ==
    { [kind |-> "raise", exc |-> "TimeoutException"],
      [kind |-> "response", status |-> 200, body |-> Products(<<EntryFull>>)],
      [kind |-> "response", status |-> 204, body |-> NotJson] }
        \cup { [kind |-> "response", status |-> st, body |-> NotJson] :
               st \in {199, 300, 304, 403, 503} }

OnePostOutcome ==
    { [kind |-> "response", status |-> 200, body |-> Products(<<EntryFull>>)] }

NoPost == [kind |-> "none"]
NoDres == [raised |-> "", results |-> <<>>, error |-> None]
NoResp == [kind |-> "none"]
NoReq == [kind |-> "none"]
NoResults == [depo |-> None, darel |-> None]
NoAres == [raised |-> "", records |-> <<>>]
NoGql == [pc |-> "none"]
NoPriced == [pc |-> "none"]
NoScrape == [pc |-> "none"]

\* max_results / results_per_page: the given limit, 10 when it is omitted.
MaxResults(r) == IF r.limit.some THEN r.limit.val ELSE 10

\* --------------------------------------------------------------- the steps
Init ==
    /\ clock = 0
    /\ ticks = 0
    /\ cache = InitCache
    /\ cacheBy = [cookies |-> 0, expires_at |-> 0]
    /\ storedAt = 0
    /\ acquisitions = 0
    /\ lastOutcome = "none"
    /\ pc = [t \in Threads |-> "idle"]
    /\ req = [t \in Threads |-> NoReq]
    /\ frame = [t \in Threads |-> NoFrame]
    /\ log = [t \in Threads |-> <<>>]
    /\ jar = [t \in Threads |-> {}]
    /\ postResp = [t \in Threads |-> NoPost]
    /\ dres = [t \in Threads |-> NoDres]
    /\ ares = [t \in Threads |-> NoAres]
    /\ results = [t \in Threads |-> NoResults]
    /\ resp = [t \in Threads |-> NoResp]
    /\ gql = NoGql
    /\ priced = NoPriced
    /\ scrape = NoScrape

\* The clock moves on between any two steps, here by one of the given
\* amounts and at most Max times.
Tick(Max, Steps) ==
    /\ ticks < Max
    /\ \E d \in Steps : clock' = clock + d
    /\ ticks' = ticks + 1
    /\ UNCHANGED <<scrape, priced, cache, cacheBy, storedAt, acquisitions, lastOutcome, pc,
                   req, frame, log, jar, postResp, dres, ares, results, resp,
                   gql>>

\* darel_search invoked as the MCP tool (lines 56-67), up to the call of
\* _get_darel_cookies at line 85.
CallTool(t, Qs, Limits) ==
    /\ pc[t] = "idle"
    /\ \E q \in Qs, l \in Limits :
         req' = [req EXCEPT ![t] = [kind |-> "tool", q |-> q, source |-> None, limit |-> l]]
    /\ pc' = [pc EXCEPT ![t] = "gc_now"]
    /\ UNCHANGED <<scrape, priced, clock, ticks, cache, cacheBy, storedAt, acquisitions,
                   lastOutcome, frame, log, jar, postResp, dres, ares,
                   results, resp, gql>>

\* Line 18.
GetNow(t) ==
    /\ pc[t] = "gc_now"
    /\ frame' = [frame EXCEPT ![t] = [NoFrame EXCEPT !.now = clock,
                     !.snapCache = cache, !.snapStoredAt = storedAt,
                     !.snapAcq = acquisitions]]
    /\ log' = [log EXCEPT ![t] = Append(@, [op |-> "cookies"])]
    /\ pc' = [pc EXCEPT ![t] = "gc_cookies"]
    /\ UNCHANGED <<scrape, priced, clock, ticks, cache, cacheBy, storedAt, acquisitions,
                   lastOutcome, req, jar, postResp, dres, ares, results,
                   resp, gql>>

\* Line 19.
ReadCookies(t) ==
    /\ pc[t] = "gc_cookies"
    /\ frame' = [frame EXCEPT ![t].cached = cache.cookies, ![t].cachedBy = cacheBy.cookies]
    /\ pc' = [pc EXCEPT ![t] = "gc_expires"]
    /\ UNCHANGED <<scrape, priced, clock, ticks, cache, cacheBy, storedAt, acquisitions,
                   lastOutcome, req, log, jar, postResp, dres, ares, results,
                   resp, gql>>

\* Lines 20-22: on a hit the cached list is returned, and lines 86-97 load it
\* into the client's jar.
ReadExpires(t) ==
    /\ pc[t] = "gc_expires"
    /\ LET hit == Hit(frame[t].cached, cache.expires_at, frame[t].now) IN
       /\ frame' = [frame EXCEPT ![t].expires_at = cache.expires_at,
                                 ![t].expiresBy = cacheBy.expires_at,
                                 ![t].hit = hit,
                                 ![t].ret = IF hit THEN frame[t].cached ELSE None,
                                 ![t].returned = hit]
       /\ jar' = [jar EXCEPT ![t] = IF hit THEN LoadJar(frame[t].cached) ELSE {}]
       /\ lastOutcome' = IF hit THEN "hit" ELSE lastOutcome
       /\ pc' = [pc EXCEPT ![t] = IF hit THEN "get" ELSE "acquire"]
    /\ UNCHANGED <<scrape, priced, clock, ticks, cache, cacheBy, storedAt, acquisitions, req,
                   log, postResp, dres, ares, results, resp, gql>>

\* Lines 24-31: the acquisition procedure is entered.
AcquireBegin(t) ==
    /\ pc[t] = "acquire"
    /\ acquisitions < MaxAcq
    /\ acquisitions' = acquisitions + 1
    /\ frame' = [frame EXCEPT ![t].id = acquisitions + 1]
    /\ pc' = [pc EXCEPT ![t] = "browser"]
    /\ UNCHANGED <<scrape, priced, clock, ticks, cache, cacheBy, storedAt, lastOutcome, req,
                   log, jar, postResp, dres, ares, results, resp, gql>>

\* Lines 24-49: the acquisition procedure ends, and the call returns None
\* unless it obtained cookies.
AcquireEnd(t, Env) ==
    /\ pc[t] = "browser"
    /\ \E o \in (IF Env.few THEN FewAcquireOutcomes(frame[t].id)
                ELSE AcquireOutcomes(frame[t].id)) :
         LET a == AfterAcquire(o) IN
         /\ frame' = [frame EXCEPT ![t].outcome = o,
                         ![t].cookies = IF a = "store" THEN o.cookies ELSE <<>>,
                         ![t].raised = (a = "raise"),
                         ![t].returned = (a = "none")]
         /\ lastOutcome' = CASE a = "none" -> "failed"
                             [] a = "raise" -> "raised"
                             [] a = "store" -> lastOutcome
         /\ dres' = [dres EXCEPT ![t] = IF a = "raise" THEN DarelRaised("Exception") ELSE @]
         /\ pc' = [pc EXCEPT ![t] = CASE a = "none" -> "get"
                                      [] a = "raise" -> "respond"
                                      [] a = "store" -> "w_cookies"]
    /\ UNCHANGED <<scrape, priced, clock, ticks, cache, cacheBy, storedAt, acquisitions, req,
                   log, jar, postResp, results, resp, gql, ares>>

\* Line 51.
WriteCookies(t) ==
    /\ pc[t] = "w_cookies"
    /\ cache' = [cache EXCEPT !.cookies = Some(frame[t].cookies)]
    /\ cacheBy' = [cacheBy EXCEPT !.cookies = frame[t].id]
    /\ pc' = [pc EXCEPT ![t] = "w_expires"]
    /\ UNCHANGED <<scrape, priced, clock, ticks, storedAt, acquisitions, lastOutcome, req,
                   frame, log, jar, postResp, dres, ares, results, resp, gql>>

\* Lines 52-53, and lines 86-97 on the returned list.
WriteExpires(t) ==
    /\ pc[t] = "w_expires"
    /\ cache' = [cache EXCEPT !.expires_at = Expiry(frame[t].now)]
    /\ cacheBy' = [cacheBy EXCEPT !.expires_at = frame[t].id]
    /\ storedAt' = frame[t].now
    /\ frame' = [frame EXCEPT ![t].ret = Some(frame[t].cookies), ![t].returned = TRUE]
    /\ jar' = [jar EXCEPT ![t] = LoadJar(Some(frame[t].cookies))]
    /\ lastOutcome' = "stored"
    /\ pc' = [pc EXCEPT ![t] = "get"]
    /\ UNCHANGED <<scrape, priced, clock, ticks, acquisitions, req, log, postResp, dres,
                   ares, results, resp, gql>>

\* Lines 99-105: the priming GET; a transport error leaves the function.
PrimeGet(t, Env) ==
    /\ pc[t] = "get"
    /\ \E o \in Env.get :
         /\ dres' = [dres EXCEPT ![t] = IF o = "ok" THEN @ ELSE DarelRaised(o)]
         /\ pc' = [pc EXCEPT ![t] = IF o = "ok" THEN "post" ELSE "respond"]
         /\ log' = [log EXCEPT ![t] = Append(@, [op |-> "GET", jar |-> jar[t],
                                                 outcome |-> o])]
    /\ UNCHANGED <<scrape, priced, clock, ticks, cache, cacheBy, storedAt, acquisitions,
                   lastOutcome, req, frame, jar, postResp, results, resp,
                   gql, ares>>

\* Lines 82 and 106-142: the search POST and what is made of its answer.
SearchPost(t, Env) ==
    /\ pc[t] = "post"
    /\ \E o \in Env.post :
         /\ postResp' = [postResp EXCEPT ![t] = o]
         /\ dres' = [dres EXCEPT ![t] = HandlePost(o)]
    /\ log' = [log EXCEPT ![t] = Append(@, [op |-> "POST", s |-> req[t].q,
                   resultsPerPage |-> Str(MaxResults(req[t])), jar |-> jar[t]])]
    /\ pc' = [pc EXCEPT ![t] = "respond"]
    /\ UNCHANGED <<scrape, priced, clock, ticks, cache, cacheBy, storedAt, acquisitions,
                   lastOutcome, req, frame, jar, results, resp, gql, ares>>

Raised(exc) == [kind |-> "raised", exc |-> exc]
Returned(v) == [kind |-> "returned", val |-> v]

\* Lines 66-67: darel_search drops the error message.
ToolResponse(d) == IF d.raised # "" THEN Raised(d.raised) ELSE Returned(d.results)

\* Python's seq[:n].
Slice(seq, n) ==
    IF n >= 0 THEN SubSeq(seq, 1, IF n < Len(seq) THEN n ELSE Len(seq))
    ELSE SubSeq(seq, 1, IF Len(seq) + n > 0 THEN Len(seq) + n ELSE 0)

\* src of line 129.
Src(r) == Lower(IF r.source.some /\ r.source.val # "" THEN r.source.val ELSE "both")

\* Lines 157-164: a copy of each item with its "source" key set.
Tag(items, source) ==
    [i \in 1 .. Len(items) |-> ("source" :> JStr(source)) @@ items[i]]

\* results.get(key, [])
ResultsGet(rs, key) == IF rs[key].some THEN rs[key].val ELSE <<>>

\* A merge that appends source A's items after source B's.
CombineDarelFirst(src, rs) ==
    CASE src = "depo" -> ResultsGet(rs, "depo")
      [] src = "darel" -> ResultsGet(rs, "darel")
      [] OTHER -> Tag(ResultsGet(rs, "darel"), "darel") \o Tag(ResultsGet(rs, "depo"), "depo")

\* Lines 149-166 of unified_search.
Combine(src, rs) ==
    CASE src = "depo" -> ResultsGet(rs, "depo")
      [] src = "darel" -> ResultsGet(rs, "darel")
      [] OTHER -> Tag(ResultsGet(rs, "depo"), "depo") \o Tag(ResultsGet(rs, "darel"), "darel")

\* Lines 114-119 of darel_get.
DarelGetResponse(d, max_results) ==
    IF d.raised # "" THEN Raised(d.raised)
    ELSE Returned([results |-> IF Len(d.results) = 0 THEN <<>>
                               ELSE Slice(d.results, max_results)])

\* dict.get(k) on a record of a source's list.
RecGet(p, k) == IF k \in DOMAIN p THEN p[k] ELSE JNull

\* `v or "default"`
OrElse(v, default) == IF JTruthy(v) THEN v ELSE JStr(default)

\* The text lines of record number i of a list: lines 40-48 ("depo") and
\* 53-60 ("darel") of chat, lines 86-94 ("darel_post") of darel, where `last`
\* is min(limit, len(results)). A line is a record naming the line's kind and
\* the values formatted into it.
ItemLines(kind, p, i, last) ==
    << [line |-> "item", i |-> i, name |-> OrElse(RecGet(p, "name"), "Unknown")] >>
    \o (IF kind = "depo"
        THEN << [line |-> "price", price |-> OrElse(RecGet(p, "price"), "N/A"),
                 unit |-> OrElse(RecGet(p, "unit"), "")] >>
             \o (IF JTruthy(RecGet(p, "thumbnail"))
                 THEN << [line |-> "thumb", thumb |-> RecGet(p, "thumbnail")] >>
                 ELSE << >>)
        ELSE << [line |-> "price", price |-> OrElse(RecGet(p, "price"), "N/A")] >>
             \o (IF JTruthy(RecGet(p, "url"))
                 THEN << [line |-> "url", url |-> RecGet(p, "url")] >>
                 ELSE << >>))
    \o (IF kind = "darel_post" /\ i = last THEN << >> ELSE << [line |-> "blank"] >>)

\* The loops of lines 39, 52 and 85 over items, from item i on.
RECURSIVE AllLines(_, _, _, _)
AllLines(kind, items, i, last) ==
    IF i > Len(items) THEN << >>
    ELSE ItemLines(kind, items[i], i, last) \o AllLines(kind, items, i + 1, last)

NoProductsFound == Returned([message |-> << [line |-> "No products found."] >>])

\* Lines 34-65 of chat.
ChatResponse(q, depo_results, d, limit) ==
    IF d.raised # "" THEN Raised(d.raised)
    ELSE IF Len(depo_results) = 0 /\ Len(d.results) = 0 THEN NoProductsFound
    ELSE Returned([message |->
           << [line |-> "Search results for:", q |-> q], [line |-> "blank"] >>
           \o (IF Len(depo_results) = 0 THEN << >>
               ELSE << [line |-> "Depo results:"] >>
                    \o AllLines("depo", Slice(depo_results, limit), 1, 0))
           \o (IF Len(d.results) = 0 THEN << >>
               ELSE << [line |-> "Darel results:"] >>
                    \o AllLines("darel", Slice(d.results, limit), 1, 0))])

\* Lines 79-96 of darel.
DarelPostResponse(d, limit) ==
    IF d.raised # "" THEN Raised(d.raised)
    ELSE IF Len(d.results) = 0 THEN NoProductsFound
    ELSE Returned([message |->
           << [line |-> "Darel search results:"], [line |-> "blank"] >>
           \o AllLines("darel_post", Slice(d.results, limit), 1,
                       IF limit < Len(d.results) THEN limit ELSE Len(d.results))])

\* POST /chat (lines 14-27): the limit is bound and source A is fetched and
\* awaited first.
CallChat(t, Qs, Limits) ==
    /\ pc[t] = "idle"
    /\ \E q \in Qs, l \in Limits :
         req' = [req EXCEPT ![t] = [kind |-> "chat", q |-> q, source |-> None, limit |-> l]]
    /\ pc' = [pc EXCEPT ![t] = "depo"]
    /\ UNCHANGED <<scrape, priced, clock, ticks, cache, cacheBy, storedAt, acquisitions,
                   lastOutcome, frame, log, jar, postResp, dres, ares,
                   results, resp, gql>>

\* POST /darel (lines 68-79), up to the call of darel_search in the executor.
CallDarelPost(t, Qs, Limits) ==
    /\ pc[t] = "idle"
    /\ \E q \in Qs, l \in Limits :
         req' = [req EXCEPT ![t] = [kind |-> "darel_post", q |-> q, source |-> None, limit |-> l]]
    /\ pc' = [pc EXCEPT ![t] = "gc_now"]
    /\ UNCHANGED <<scrape, priced, clock, ticks, cache, cacheBy, storedAt, acquisitions,
                   lastOutcome, frame, log, jar, postResp, dres, ares,
                   results, resp, gql>>

\* GET /search (lines 122-134): the arguments are bound and the first
\* selected source is about to be called.
CallSearch(t, Qs, Sources, Limits) ==
    /\ pc[t] = "idle"
    /\ \E q \in Qs, so \in Sources, l \in Limits :
         LET r == [kind |-> "search", q |-> q, source |-> so, limit |-> l] IN
         /\ req' = [req EXCEPT ![t] = r]
         /\ pc' = [pc EXCEPT ![t] =
                     IF Src(r) \in {"depo", "both"} THEN "depo"
                     ELSE IF Src(r) \in {"darel", "both"} THEN "gc_now"
                     ELSE "respond"]
    /\ UNCHANGED <<scrape, priced, clock, ticks, cache, cacheBy, storedAt, acquisitions,
                   lastOutcome, frame, log, jar, postResp, dres, ares,
                   results, resp, gql>>

\* GET /darel (lines 99-114), up to the call of darel_search in the executor.
CallDarelGet(t, Qs, Limits) ==
    /\ pc[t] = "idle"
    /\ \E q \in Qs, l \in Limits :
         req' = [req EXCEPT ![t] = [kind |-> "darel_get", q |-> q, source |-> None, limit |-> l]]
    /\ pc' = [pc EXCEPT ![t] = "gc_now"]
    /\ UNCHANGED <<scrape, priced, clock, ticks, cache, cacheBy, storedAt, acquisitions,
                   lastOutcome, frame, log, jar, postResp, dres, ares,
                   results, resp, gql>>

\* Lines 141-143 of unified_search and line 27 of chat: the awaited source A
\* fetch completes; what it raises leaves the handler.
CallDepo(t) ==
    /\ pc[t] = "depo"
    /\ \E a \in DepoAnswers :
         LET out == search_products_structured(req[t].q, MaxResults(req[t]), a) IN
         /\ ares' = [ares EXCEPT ![t] = out]
         /\ results' = [results EXCEPT ![t].depo =
                          IF out.raised # "" THEN @ ELSE Some(out.records)]
         /\ resp' = [resp EXCEPT ![t] =
                          IF out.raised # "" THEN Raised(out.raised) ELSE @]
         /\ pc' = [pc EXCEPT ![t] =
                          IF out.raised # "" THEN "done"
                          ELSE IF Src(req[t]) \in {"darel", "both"} THEN "gc_now"
                          ELSE "respond"]
    /\ log' = [log EXCEPT ![t] = Append(@, [op |-> "depo", q |-> req[t].q,
                   limit |-> MaxResults(req[t]),
                   rows |-> Clamp(MaxResults(req[t]), 1, 50)])]
    /\ UNCHANGED <<scrape, priced, clock, ticks, cache, cacheBy, storedAt, acquisitions,
                   lastOutcome, req, frame, jar, postResp, dres, gql>>

\* Lines 144-166 of unified_search once the selected sources have answered.
SearchResponse(r, rs, d) ==
    IF Src(r) \in {"darel", "both"} /\ d.raised # "" THEN Raised(d.raised)
    ELSE Returned([results |-> Combine(Src(r),
             IF Src(r) \in {"darel", "both"}
             THEN [rs EXCEPT !.darel = Some(d.results)] ELSE rs)])

\* The entry point hands its result to the caller.
Respond(t) ==
    /\ pc[t] = "respond"
    /\ results' = [results EXCEPT ![t].darel =
           IF req[t].kind = "search" /\ Src(req[t]) \in {"darel", "both"}
                                    /\ dres[t].raised = ""
           THEN Some(dres[t].results) ELSE @]
    /\ resp' = [resp EXCEPT ![t] =
           CASE req[t].kind = "tool" -> ToolResponse(dres[t])
             [] req[t].kind = "darel_get" -> DarelGetResponse(dres[t], MaxResults(req[t]))
             [] req[t].kind = "search" -> SearchResponse(req[t], results[t], dres[t])
             [] req[t].kind = "chat" ->
                    ChatResponse(req[t].q, ares[t].records, dres[t], MaxResults(req[t]))
             [] req[t].kind = "darel_post" -> DarelPostResponse(dres[t], MaxResults(req[t]))]
    /\ pc' = [pc EXCEPT ![t] = "done"]
    /\ UNCHANGED <<scrape, priced, clock, ticks, cache, cacheBy, storedAt, acquisitions,
                   lastOutcome, req, frame, log, jar, postResp, dres, ares,
                   gql>>

\* The end of a call whose `results` dict is a module-level object, kept
\* from one request to the next.
FinishKeepsResults(t) ==
    /\ pc[t] = "done"
    /\ pc' = [pc EXCEPT ![t] = "idle"]
    /\ req' = [req EXCEPT ![t] = NoReq]
    /\ frame' = [frame EXCEPT ![t] = NoFrame]
    /\ log' = [log EXCEPT ![t] = <<>>]
    /\ jar' = [jar EXCEPT ![t] = {}]
    /\ postResp' = [postResp EXCEPT ![t] = NoPost]
    /\ dres' = [dres EXCEPT ![t] = NoDres]
    /\ ares' = [ares EXCEPT ![t] = NoAres]
    /\ resp' = [resp EXCEPT ![t] = NoResp]
    /\ UNCHANGED <<scrape, priced, clock, ticks, cache, cacheBy, storedAt, acquisitions,
                   lastOutcome, gql, results>>

\* The call is over; its locals are gone.
Finish(t) ==
    /\ pc[t] = "done"
    /\ pc' = [pc EXCEPT ![t] = "idle"]
    /\ req' = [req EXCEPT ![t] = NoReq]
    /\ frame' = [frame EXCEPT ![t] = NoFrame]
    /\ log' = [log EXCEPT ![t] = <<>>]
    /\ jar' = [jar EXCEPT ![t] = {}]
    /\ postResp' = [postResp EXCEPT ![t] = NoPost]
    /\ dres' = [dres EXCEPT ![t] = NoDres]
    /\ ares' = [ares EXCEPT ![t] = NoAres]
    /\ results' = [results EXCEPT ![t] = NoResults]
    /\ resp' = [resp EXCEPT ![t] = NoResp]
    /\ UNCHANGED <<scrape, priced, clock, ticks, cache, cacheBy, storedAt, acquisitions,
                   lastOutcome, gql>>

\* The steps of a Darel fetch, from line 18 to line 142. Env is what the
\* browser and the upstream may do in the run.
DarelStep(t, Env) ==
    \/ GetNow(t)
    \/ ReadCookies(t)
    \/ ReadExpires(t)
    \/ AcquireBegin(t)
    \/ AcquireEnd(t, Env)
    \/ WriteCookies(t)
    \/ WriteExpires(t)
    \/ PrimeGet(t, Env)
    \/ SearchPost(t, Env)

SeqEnv == [few |-> FALSE, get |-> GetOutcomes, post |-> SeqPostOutcomes]
ConcEnv == [few |-> TRUE, get |-> {"ok"}, post |-> OnePostOutcome]

ToolQueries == {"", "hammer"}
ToolLimits == {None, Some(0 - 1), Some(2)}

\* Sequential calls of the darel_search tool: one call at a time.
NextSeq ==
    \/ Tick(MaxTicks, {1, DAREL_COOKIE_TTL_SECONDS - 1})
    \/ \E t \in SeqThreads :
         \/ CallTool(t, ToolQueries, ToolLimits)
         \/ DarelStep(t, SeqEnv)
         \/ Respond(t)
         \/ Finish(t)

SpecSeq == Init /\ [][NextSeq]_vars

Queries == {"", " ", "hammer"}
Sources == {None, Some("depo"), Some("darel"), Some("Darel"), Some("both"), Some("amazon")}
Limits == {None, Some(0 - 1), Some(0), Some(1), Some(51)}

Env == [few |-> TRUE, get |-> GetOutcomes, post |-> PostOutcomes]

\* The HTTP endpoints of routers/chat.py, one request at a time.
Next ==
    \E t \in SeqThreads :
        \/ CallSearch(t, Queries, Sources, Limits)
        \/ CallDarelGet(t, Queries, Limits)
        \/ CallDepo(t)
        \/ DarelStep(t, Env)
        \/ Respond(t)
        \/ Finish(t)

Spec == Init /\ [][Next]_vars

\* The requests that select source B alone: GET /search with source=darel
\* and GET /darel, one request at a time.
NextB ==
    \E t \in SeqThreads :
        \/ CallSearch(t, Queries, {Some("darel"), Some("Darel")}, Limits)
        \/ CallDarelGet(t, Queries, Limits)
        \/ DarelStep(t, Env)
        \/ Respond(t)
        \/ Finish(t)

SpecB == Init /\ [][NextB]_vars

\* Concurrent calls of darel_search in executor threads, interleaved at the
\* single reads and writes of _darel_cookie_cache.
NextConc ==
    \/ Tick(MaxConcTicks, {DAREL_COOKIE_TTL_SECONDS})
    \/ \E t \in Threads :
         \/ CallTool(t, {"hammer"}, {None})
         \/ DarelStep(t, ConcEnv)
         \/ Respond(t)
         \/ Finish(t)

SpecConc == Init /\ [][NextConc]_vars

\* Positions inside darel_search: source B's fetch is in flight.
DarelPcs ==
    {"gc_now", "gc_cookies", "gc_expires", "acquire", "browser", "w_cookies",
     "w_expires", "get", "post"}

\* The requests served by a coroutine of routers/chat.py.
HttpKinds == {"search", "darel_get", "darel_post", "chat"}

\* darel_search called in the coroutine itself.
RunsOnLoop(kind) == IF kind \in HttpKinds THEN "loop" ELSE "caller"

\* Where darel_search runs for a request: the endpoints hand it to a worker
\* thread of the default executor with loop.run_in_executor(None, ...)
\* (lines 32, 79, 114 and 146) and await the future.
RunsOn(kind) == IF kind \in HttpKinds THEN "worker" ELSE "caller"

\* The event loop's thread is inside another request's blocking call.
LoopBusy(t) ==
    \E u \in Threads \ {t} : pc[u] \in DarelPcs /\ RunsOn(req[u].kind) = "loop"

LoopQueries == {"hammer"}
LoopLimits == {Some(1)}

\* A step of request t's coroutine, run by the event loop when its thread is
\* free; a coroutine runs without interruption from one await to the next.
HttpStep(t) ==
    /\ ~LoopBusy(t)
    /\ \/ /\ t \in SeqThreads
          /\ \/ CallSearch(t, LoopQueries, {None, Some("darel")}, LoopLimits)
             \/ CallChat(t, LoopQueries, LoopLimits)
             \/ CallDarelGet(t, LoopQueries, LoopLimits)
             \/ CallDarelPost(t, LoopQueries, LoopLimits)
       \/ /\ t \notin SeqThreads
          /\ CallSearch(t, LoopQueries, {Some("depo")}, LoopLimits)
       \/ CallDepo(t)
       \/ Respond(t)
       \/ Finish(t)

\* A step of request t's darel_search, in the thread that runs it.
FetchStep(t) ==
    /\ RunsOn(req[t].kind) = "loop" => ~LoopBusy(t)
    /\ DarelStep(t, ConcEnv)

\* Concurrent requests to the endpoints of routers/chat.py: the first thread
\* serves the requests that select source B, one after the other, and the
\* others serve requests for source A alone.
NextLoop == \E t \in Threads : HttpStep(t) \/ FetchStep(t)

SpecLoop == Init /\ [][NextLoop]_vars

\* An upstream B that answers by the query alone: the same query gets the
\* same answers, whenever and with whatever cookies it is asked.
FixtureEnv(q) ==
    CASE q = "hammer" ->
           [few |-> TRUE, get |-> {"ok"},
            post |-> {[kind |-> "response", status |-> 200,
                       body |-> Products(<<EntryNoPrice, EntryFull>>)]}]
      [] q = "saw" ->
           [few |-> TRUE, get |-> {"ok"},
            post |-> {[kind |-> "response", status |-> 403, body |-> NotJson]}]
      [] OTHER ->
           [few |-> TRUE, get |-> {"TimeoutException"}, post |-> OnePostOutcome]

FixtureQueries == {"hammer", "saw", "nails"}
FixtureLimits == {Some(1)}

\* The two executions that are compared.
Pair == {1, 2}

\* A step of thread t's /search request for both sources, taken while no
\* other request is under way.
FixtureStep(t) ==
    /\ \A u \in Pair \ {t} : pc[u] \in {"idle", "done"}
    /\ \/ CallSearch(t, FixtureQueries, {Some("both")}, FixtureLimits)
       \/ CallDepo(t)
       \/ DarelStep(t, FixtureEnv(req[t].q))
       \/ Respond(t)
       \/ Finish(t)

\* Executions of /search one after the other against the same upstream B,
\* with the clock moving past the cookie lifetime in between; a finished
\* execution keeps its result while the next ones run.
NextFixture ==
    \/ Tick(MaxConcTicks, {DAREL_COOKIE_TTL_SECONDS})
    \/ \E t \in Pair : FixtureStep(t)

SpecFixture == Init /\ [][NextFixture]_vars

\* execute_graphql_request called on its own, on every endpoint, query and
\* answer of the sets below.
GqlEndpoints == {"", " ", "https://online.depo.lv/graphql"}
GqlQueries == {"", " ", "query"}

InitGql ==
    /\ clock = 0
    /\ ticks = 0
    /\ cache = InitCache
    /\ cacheBy = [cookies |-> 0, expires_at |-> 0]
    /\ storedAt = 0
    /\ acquisitions = 0
    /\ lastOutcome = "none"
    /\ pc = [t \in Threads |-> "idle"]
    /\ req = [t \in Threads |-> NoReq]
    /\ frame = [t \in Threads |-> NoFrame]
    /\ log = [t \in Threads |-> <<>>]
    /\ jar = [t \in Threads |-> {}]
    /\ postResp = [t \in Threads |-> NoPost]
    /\ dres = [t \in Threads |-> NoDres]
    /\ ares = [t \in Threads |-> NoAres]
    /\ results = [t \in Threads |-> NoResults]
    /\ resp = [t \in Threads |-> NoResp]
    /\ priced = NoPriced
    /\ scrape = NoScrape
    /\ \E e \in GqlEndpoints, q \in GqlQueries, a \in GqlAnswers :
         gql = [pc |-> "call", endpoint |-> e, query |-> q, answer |-> a]

RunGraphql ==
    /\ gql.pc = "call"
    /\ gql' = [pc |-> "done", endpoint |-> gql.endpoint, query |-> gql.query,
               answer |-> gql.answer,
               out |-> execute_graphql_request(gql.endpoint, gql.query, gql.answer)]
    /\ UNCHANGED <<scrape, priced, clock, ticks, cache, cacheBy, storedAt, acquisitions,
                   lastOutcome, pc, req, frame, log, jar, postResp, dres, ares,
                   results, resp>>

NextGql == RunGraphql

SpecGql == InitGql /\ [][NextGql]_vars

\* The price resolution called on its own, on every list of price entries of
\* PriceLists.
InitPrice ==
    /\ clock = 0
    /\ ticks = 0
    /\ cache = InitCache
    /\ cacheBy = [cookies |-> 0, expires_at |-> 0]
    /\ storedAt = 0
    /\ acquisitions = 0
    /\ lastOutcome = "none"
    /\ pc = [t \in Threads |-> "idle"]
    /\ req = [t \in Threads |-> NoReq]
    /\ frame = [t \in Threads |-> NoFrame]
    /\ log = [t \in Threads |-> <<>>]
    /\ jar = [t \in Threads |-> {}]
    /\ postResp = [t \in Threads |-> NoPost]
    /\ dres = [t \in Threads |-> NoDres]
    /\ ares = [t \in Threads |-> NoAres]
    /\ results = [t \in Threads |-> NoResults]
    /\ resp = [t \in Threads |-> NoResp]
    /\ gql = NoGql
    /\ \E es \in PriceLists : priced = [pc |-> "call", entries |-> es]
    /\ scrape = NoScrape

RunResolvePrice ==
    /\ priced.pc = "call"
    /\ priced' = [pc |-> "done", entries |-> priced.entries,
                  price |-> ResolvePrice(priced.entries)]
    /\ UNCHANGED <<scrape, clock, ticks, cache, cacheBy, storedAt, acquisitions,
                   lastOutcome, pc, req, frame, log, jar, postResp, dres, ares,
                   results, resp, gql>>

NextPrice == RunResolvePrice

SpecPrice == InitPrice /\ [][NextPrice]_vars


\* ------------------------------------- the search_products tool of Depo
Min(a, b) == IF a < b THEN a ELSE b
Max(a, b) == IF a > b THEN a ELSE b

\* A limit passed on as it came.
ClampLimitNone(limit) == limit

\* Line 520.
ClampLimit(limit) == Min(Max(1, limit), 50)

\* A page text as the tool looks at it: how many distinct product links
\* extract_product_links finds in it, how many products extract_product_info
\* finds in it, and whether its first 2000 characters hold one of the words
\* of lines 573-576. The empty string has none of them.
Page(links, info, indicators) ==
    [empty |-> FALSE, links |-> links, info |-> info, indicators |-> indicators]

EmptyPage == [empty |-> TRUE, links |-> 0, info |-> 0, indicators |-> FALSE]

Pages ==
    {EmptyPage} \cup { Page(n, m, i) : n \in 0 .. MaxLinks, m \in {0, MaxLinks},
                                      i \in BOOLEAN }

\* make_request_with_browser (lines 36-75): the page content, or None when
\* Playwright is missing or anything raised.
BrowserOutcomes == {None} \cup { Some(pg) : pg \in Pages }

\* make_request (lines 78-122): the response, or None on a non-2xx status, a
\* request error or any other exception.
HttpOutcomes == {None} \cup { Some(pg) : pg \in Pages }

\* `not html_content` of line 537.
NoContent(html) == ~html.some \/ html.val.empty

\* extract_product_links (lines 125-173): the distinct product URLs of a page.
extract_product_links(pg) == [i \in 1 .. pg.links |-> i]

\* extract_product_info (lines 306-504): the products read off a listing.
extract_product_info(pg) == [i \in 1 .. pg.info |-> [from |-> "listing", n |-> i]]

ScrapeLimits == {0 - 1, 0, 1, 2, 51}

\* search_products called on its own.
InitScrape ==
    /\ clock = 0
    /\ ticks = 0
    /\ cache = InitCache
    /\ cacheBy = [cookies |-> 0, expires_at |-> 0]
    /\ storedAt = 0
    /\ acquisitions = 0
    /\ lastOutcome = "none"
    /\ pc = [t \in Threads |-> "idle"]
    /\ req = [t \in Threads |-> NoReq]
    /\ frame = [t \in Threads |-> NoFrame]
    /\ log = [t \in Threads |-> <<>>]
    /\ jar = [t \in Threads |-> {}]
    /\ postResp = [t \in Threads |-> NoPost]
    /\ dres = [t \in Threads |-> NoDres]
    /\ ares = [t \in Threads |-> NoAres]
    /\ results = [t \in Threads |-> NoResults]
    /\ resp = [t \in Threads |-> NoResp]
    /\ gql = NoGql
    /\ priced = NoPriced
    /\ \E q \in Queries, l \in ScrapeLimits, hp \in BOOLEAN :
         scrape = [pc |-> "call", query |-> q, limit |-> l, HAS_PLAYWRIGHT |-> hp,
                   lim |-> l, html |-> None, calls |-> <<>>, product_links |-> <<>>,
                   fetched |-> <<>>, products |-> <<>>, out |-> [kind |-> "none"]]

ScrapeFrame ==
    UNCHANGED <<clock, ticks, cache, cacheBy, storedAt, acquisitions,
                lastOutcome, pc, req, frame, log, jar, postResp, dres, ares,
                results, resp, gql, priced>>

\* Lines 517-524.
CheckQuery ==
    /\ scrape.pc = "call"
    /\ scrape' = IF Blank(scrape.query)
                 THEN [scrape EXCEPT !.pc = "done", !.out = [kind |-> "error_empty"]]
                 ELSE [scrape EXCEPT !.pc = "browser", !.lim = ClampLimit(scrape.limit)]
    /\ ScrapeFrame

\* Lines 527-534: the search page through the headless browser.
SearchBrowser ==
    /\ scrape.pc = "browser"
    /\ IF scrape.HAS_PLAYWRIGHT
       THEN \E o \in BrowserOutcomes :
                scrape' = [scrape EXCEPT
                              !.calls = Append(@, [via |-> "browser", got |-> o]),
                              !.html = o, !.pc = "http"]
       ELSE scrape' = [scrape EXCEPT !.pc = "http"]
    /\ ScrapeFrame

\* Lines 537-544: the plain HTTP request when there is no content yet.
SearchHttp ==
    /\ scrape.pc = "http"
    /\ IF NoContent(scrape.html)
       THEN \E o \in HttpOutcomes :
                scrape' = [scrape EXCEPT
                              !.calls = Append(@, [via |-> "http", got |-> o]),
                              !.html = o,
                              !.pc = IF o.some THEN "links" ELSE "done",
                              !.out = IF o.some THEN @ ELSE [kind |-> "error_unavailable"]]
       ELSE scrape' = [scrape EXCEPT !.pc = "links"]
    /\ ScrapeFrame

\* Lines 550-557 and 563-565.
ExtractLinks ==
    /\ scrape.pc = "links"
    /\ LET product_links == extract_product_links(scrape.html.val) IN
       scrape' = IF Len(product_links) > 0
                 THEN [scrape EXCEPT
                          !.product_links = Slice(product_links, scrape.lim),
                          !.pc = IF Len(Slice(product_links, scrape.lim)) > 0
                                 THEN "details" ELSE "format"]
                 ELSE [scrape EXCEPT
                          !.products = extract_product_info(scrape.html.val),
                          !.pc = "format"]
    /\ ScrapeFrame

\* Lines 559-562: one turn of the loop; fetch_product_details (lines 176-303)
\* gives a product or None.
FetchDetail ==
    /\ scrape.pc = "details"
    /\ LET link == scrape.product_links[Len(scrape.fetched) + 1] IN
       \E got \in BOOLEAN :
           scrape' = [scrape EXCEPT
                         !.fetched = Append(@, link),
                         !.products = IF got THEN Append(@, [from |-> "detail", n |-> link])
                                      ELSE @,
                         !.pc = IF Len(scrape.fetched) + 1 = Len(scrape.product_links)
                                THEN "format" ELSE "details"]
    /\ ScrapeFrame

\* Lines 569-606.
Format ==
    /\ scrape.pc = "format"
    /\ scrape' = [scrape EXCEPT
                     !.pc = "done",
                     !.out = IF Len(scrape.products) = 0
                             THEN IF scrape.html.val.indicators
                                  THEN [kind |-> "may_exist"] ELSE [kind |-> "not_found"]
                             ELSE LET listed == Slice(scrape.products, scrape.lim) IN
                                  [kind |-> "results", listed |-> listed,
                                   showing |-> (Len(listed) = scrape.lim)]]
    /\ ScrapeFrame

NextScrape ==
    \/ CheckQuery
    \/ SearchBrowser
    \/ SearchHttp
    \/ ExtractLinks
    \/ FetchDetail
    \/ Format

SpecScrape == InitScrape /\ [][NextScrape]_vars

\* ------------------------------------------------------------ the claims
\* Positions at which _get_darel_cookies has returned to line 85.
AfterCookies == {"get", "post", "respond", "done"}

\* Thread t's call found, when it read the clock, cookies stored by a call
\* that had read the clock less than 1800 s before.
EnteredFresh(t) ==
    /\ pc[t] \notin {"idle", "gc_now"}
    /\ Truthy(frame[t].snapCache.cookies)
    /\ frame[t].now < frame[t].snapStoredAt + 1800

\* C1: in sequential calls, a call that reads the clock less than 1800 s
\* after the clock value t0 of the call that stored the cached non-empty
\* cookie list never enters the acquisition procedure (the number of
\* acquisitions stays what it was when the call began) and returns exactly
\* the stored list.
SessionCacheReuse ==
    \A t \in Threads :
        EnteredFresh(t) =>
            /\ acquisitions = frame[t].snapAcq
            /\ pc[t] \in {"gc_cookies", "gc_expires"} \cup AfterCookies
            /\ pc[t] \in AfterCookies =>
                   /\ frame[t].returned
                   /\ frame[t].ret = frame[t].snapCache.cookies

\* A call made 1799 s after the storing call was served from the cache.
SessionCacheReuseWitness ==
    \E t \in Threads :
        /\ EnteredFresh(t)
        /\ pc[t] = "done"
        /\ frame[t].now = frame[t].snapStoredAt + 1799
        /\ frame[t].hit

\* C2: in sequential calls, with cookies stored by a call that read the
\* clock at t0: a call at t < t0 + 1800 enters no acquisition; a call at
\* t >= t0 + 1800 enters exactly one, and when that one obtains cookies the
\* cache holds them with expires_at = t + 1800 (so that the calls before
\* t + 1800 are served from the cache in turn).
SessionCacheExpiry ==
    \A t \in Threads :
        (pc[t] \in AfterCookies /\ Truthy(frame[t].snapCache.cookies)) =>
            /\ frame[t].now < frame[t].snapStoredAt + 1800
                   => acquisitions = frame[t].snapAcq
            /\ frame[t].now >= frame[t].snapStoredAt + 1800 =>
                   /\ acquisitions = frame[t].snapAcq + 1
                   /\ Truthy(frame[t].ret) =>
                          /\ frame[t].ret = Some(frame[t].outcome.cookies)
                          /\ frame[t].outcome.cookies[1].value = frame[t].snapAcq + 1
                          /\ cache = [cookies |-> frame[t].ret,
                                      expires_at |-> frame[t].now + 1800]
                          /\ storedAt = frame[t].now

\* Stored at t = 0, expired and acquired anew by the call at t = 1801.
SessionCacheExpiryWitness ==
    \E t \in Threads :
        /\ pc[t] = "done"
        /\ Truthy(frame[t].snapCache.cookies)
        /\ frame[t].snapStoredAt = 0
        /\ frame[t].now = 1801
        /\ acquisitions = frame[t].snapAcq + 1
        /\ Truthy(frame[t].ret)
        /\ cache.expires_at = 3601

\* The acquisition of thread t's call failed.
AcquisitionFailed(t) ==
    \/ frame[t].outcome.kind \in {"import_error", "raise"}
    \/ frame[t].outcome.kind = "cookies" /\ Len(frame[t].outcome.cookies) = 0

\* C3: in sequential calls, a call whose acquisition fails (import error,
\* launch or navigation raising, no cookies) returns None without raising,
\* and from then until the next call ends the cache gives no hit: it holds
\* no non-empty cookie list with an expiry after the current time.
AcquisitionFailureIsSilent ==
    /\ \A t \in Threads :
           AcquisitionFailed(t) =>
               /\ ~frame[t].raised
               /\ frame[t].returned
               /\ frame[t].ret = None
               /\ jar[t] = {}
               /\ pc[t] \in AfterCookies
    /\ lastOutcome \in {"failed", "raised"} =>
           ~(Truthy(cache.cookies) /\ cache.expires_at > clock)

\* A navigation error while an expired credential was cached: the call went
\* on to the POST without cookies.
AcquisitionFailureWitness ==
    \E t \in Threads :
        /\ frame[t].outcome.kind = "raise"
        /\ Truthy(cache.cookies)
        /\ lastOutcome = "failed"
        /\ pc[t] = "respond"
        /\ postResp[t].kind = "response"

\* C4: under concurrent calls no partially updated credential is observed
\* or left: the (cookies, expires_at) pair a call has read for the test of
\* line 21 has both parts written by one acquisition, and so has the pair in
\* the cache whenever no call is between the writes of lines 51 and 52.
AtomicCredentialReplacement ==
    /\ \A t \in Threads :
           pc[t] \in {"acquire", "browser", "w_cookies", "w_expires"} \cup AfterCookies
               => frame[t].cachedBy = frame[t].expiresBy
    /\ (\A t \in Threads : pc[t] # "w_expires")
           => cacheBy.cookies = cacheBy.expires_at

\* The search POST of thread t's call was answered with a non-2xx status.
Rejected(t) ==
    /\ postResp[t].kind = "response"
    /\ ~(postResp[t].status >= 200 /\ postResp[t].status <= 299)

\* C5: whatever the query and the limit, when the search POST is answered
\* with a non-2xx status, _darel_search_with_error raises nothing and returns
\* an empty list with an error message naming that status, and darel_search
\* returns [].
SourceBRejection ==
    \A t \in Threads :
        Rejected(t) =>
            /\ dres[t].raised = ""
            /\ dres[t].results = <<>>
            /\ dres[t].error.some
            /\ dres[t].error.val.status = postResp[t].status
            /\ (pc[t] = "done" /\ req[t].kind = "tool") => resp[t] = Returned(<<>>)

\* darel_search returned [] for a POST answered 403.
SourceBRejectionWitness ==
    \E t \in Threads :
        /\ pc[t] = "done"
        /\ req[t].kind = "tool"
        /\ postResp[t].kind = "response"
        /\ postResp[t].status = 403
        /\ resp[t] = Returned(<<>>)

\* C6: a /search request for both sources whose source A fetch raised is not
\* aborted: it never ends in an exception, and its response holds source B's
\* records, tagged "darel", and nothing else.
SourceAFailureIsolated ==
    \A t \in Threads :
        (req[t].kind = "search" /\ Src(req[t]) = "both" /\ ares[t].raised # "") =>
            /\ resp[t].kind # "raised"
            /\ pc[t] = "done" =>
                   /\ resp[t].kind = "returned"
                   /\ resp[t].val.results = Tag(dres[t].results, "darel")

\* The priming GET of thread t's call raised.
GetFailed(t) ==
    \E i \in DOMAIN log[t] : log[t][i].op = "GET" /\ log[t][i].outcome # "ok"

\* Source B failed in transport: the GET or the POST raised, or the 2xx body
\* is no JSON object.
TransportFailed(t) ==
    \/ GetFailed(t)
    \/ postResp[t].kind = "raise"
    \/ /\ postResp[t].kind = "response"
       /\ IsSuccess(postResp[t].status)
       /\ (postResp[t].body.json => postResp[t].body.val.t # "obj")

\* C7: a /search or GET /darel request whose source B fetch failed in
\* transport still ends in a normal result: no exception leaves
\* _darel_search_with_error or the endpoint, and source B contributes [].
TransportFailureNotFatal ==
    \A t \in Threads :
        (req[t].kind \in {"search", "darel_get"} /\ TransportFailed(t)) =>
            /\ dres[t].raised = ""
            /\ dres[t].results = <<>>
            /\ resp[t].kind # "raised"

\* The answer is one of the four cases the claim lists.
GqlListedFailure(a) ==
    \/ a.kind = "raise"
    \/ ~(a.status >= 200 /\ a.status <= 299)
    \/ ~a.body.json
    \/ a.body.val.t = "obj" /\ "errors" \in DOMAIN a.body.val.o

\* C8: execute_graphql_request, called with an endpoint and a query that are
\* not blank, makes exactly one POST; it raises GraphQLRequestError when the
\* POST fails, the status is not 2xx, the body is not JSON or the envelope
\* has an "errors" entry, and otherwise returns the decoded payload.
GraphqlErrorKinds ==
    (gql.pc = "done" /\ ~Blank(gql.endpoint) /\ ~Blank(gql.query)) =>
        /\ gql.out.posts = 1
        /\ IF GqlListedFailure(gql.answer)
           THEN gql.out.raised = "GraphQLRequestError"
           ELSE gql.out.raised = "" /\ gql.out.data = gql.answer.body.val

\* C9: whatever limit is requested, the limit handed to a source adapter
\* lies in 1..50, and a list returned on its own is cut to a limit in 1..50.
LimitClamped ==
    \A t \in Threads :
        /\ \A i \in DOMAIN log[t] :
               /\ log[t][i].op = "depo" => log[t][i].limit \in 1 .. 50
               /\ log[t][i].op = "POST" =>
                      log[t][i].resultsPerPage \in { Str(n) : n \in 1 .. 50 }
        /\ (pc[t] = "done" /\ req[t].kind = "darel_get" /\ resp[t].kind = "returned") =>
               \E n \in 1 .. 50 : resp[t].val.results = Slice(dres[t].results, n)

\* The upstream calls of thread t's request so far.
UpstreamCalls(t) ==
    { i \in DOMAIN log[t] : log[t][i].op \in {"depo", "GET", "POST"} }

\* C10: a /search request whose query is empty or blank dispatches no
\* upstream call (no source A fetch, no acquisition, no GET, no POST) and
\* answers {"results": []}.
EmptyQueryShortCircuit ==
    \A t \in Threads :
        (req[t].kind = "search" /\ Strip(req[t].q) = "") =>
            /\ UpstreamCalls(t) = {}
            /\ frame[t].id = 0
            /\ pc[t] = "done" => resp[t] = Returned([results |-> <<>>])

\* A /search request of thread t for both sources has returned normally.
BothReturned(t) ==
    /\ req[t].kind = "search"
    /\ Src(req[t]) \notin {"depo", "darel"}
    /\ pc[t] = "done"
    /\ resp[t].kind = "returned"

\* An item without its "source" key.
Untagged(item) == [k \in DOMAIN item \ {"source"} |-> item[k]]

\* C11: the list of a /search response for both sources is source A's
\* records in the order source A returned them, then source B's records in
\* the order darel_search returned them: as many items as both lists
\* together, item i being A's i-th and item Len(A) + j being B's j-th.
StableMergeOrder ==
    \A t \in Threads :
        BothReturned(t) =>
            LET out == resp[t].val.results
                A == ares[t].records
                B == dres[t].results IN
            /\ Len(out) = Len(A) + Len(B)
            /\ \A i \in 1 .. Len(A) :
                   /\ Untagged(out[i]) = A[i]
                   /\ out[i]["source"] = JStr("depo")
            /\ \A j \in 1 .. Len(B) :
                   /\ Untagged(out[Len(A) + j]) = B[j]
                   /\ out[Len(A) + j]["source"] = JStr("darel")

\* Two records of each source were merged.
StableMergeOrderWitness ==
    \E t \in Threads :
        /\ BothReturned(t)
        /\ Len(ares[t].records) = 2
        /\ Len(dres[t].results) = 2
        /\ dres[t].results[1] # dres[t].results[2]
        /\ Len(resp[t].val.results) = 4

\* C12: every record of a /search response, whatever the source selector,
\* carries a "source" key whose value is not null.
SourceTagOnEveryRecord ==
    \A t \in Threads :
        (req[t].kind = "search" /\ pc[t] = "done" /\ resp[t].kind = "returned") =>
            \A i \in 1 .. Len(resp[t].val.results) :
                /\ "source" \in DOMAIN resp[t].val.results[i]
                /\ resp[t].val.results[i]["source"].t # "null"

\* The value is a non-empty string.
NonEmptyString(v) == v.t = "str" /\ v.s # ""

\* C13: no record with a missing, null or empty name is emitted: every
\* record _darel_search_with_error returns, and so every record of
\* darel_search's output and of a response built from it, has a non-empty
\* name.
NameRequired ==
    \A t \in Threads :
        \A i \in 1 .. Len(dres[t].results) : NonEmptyString(dres[t].results[i].name)

\* C14: every named record the source B normalizer emits has a price that
\* is a non-empty string (the upstream's price, or the "not available"
\* sentinel when the entry has none), never null.
PriceAlwaysString ==
    \A t \in Threads :
        \A i \in 1 .. Len(dres[t].results) :
            NonEmptyString(dres[t].results[i].name)
                => NonEmptyString(dres[t].results[i].price)

\* C15: with a limit in 1..50, the list of a /search response for both
\* sources is the first `limit` records of source A's records followed by
\* source B's, so it has at most `limit` records.
FlatCombinedTruncation ==
    \A t \in Threads :
        (BothReturned(t) /\ MaxResults(req[t]) \in 1 .. 50) =>
            LET out == resp[t].val.results
                all == ares[t].records \o dres[t].results IN
            /\ Len(out) <= MaxResults(req[t])
            /\ Len(out) <= Len(all)
            /\ Len(out) < MaxResults(req[t]) => Len(out) = Len(all)
            /\ \A i \in 1 .. Len(out) : Untagged(out[i]) = all[i]

\* Thread t's request returned one source's list on its own: GET /darel,
\* or /search with source=darel.
AloneReturned(t) ==
    /\ pc[t] = "done"
    /\ resp[t].kind = "returned"
    /\ \/ req[t].kind = "darel_get"
       \/ req[t].kind = "search" /\ Src(req[t]) = "darel"

\* C16: with a limit in 1..50, a list of source B returned on its own is a
\* prefix of what darel_search returned and has at most `limit` records.
PerSourceTruncation ==
    \A t \in Threads :
        (AloneReturned(t) /\ MaxResults(req[t]) \in 1 .. 50) =>
            LET out == resp[t].val.results IN
            /\ Len(out) <= MaxResults(req[t])
            /\ Len(out) <= Len(dres[t].results)
            /\ out = SubSeq(dres[t].results, 1, Len(out))

\* C17: in a request for both sources the two fetches are in flight at the
\* same time. Source A's fetch is the one dispatched first, so the two
\* overlap exactly when source B's fetch begins before source A's has
\* completed: at the first position of source B's fetch, source A's result
\* is not in yet.
ConcurrentFanOut ==
    \A t \in Threads :
        (req[t].kind \in {"search", "chat"} /\ Src(req[t]) = "both" /\ pc[t] = "gc_now")
            => ~results[t].depo.some

\* C18: source B's fetch never holds the event loop: while a request's
\* darel_search is in flight (at any position, for any time), the coroutine
\* of every other request can take its next step, be it starting, receiving
\* source A's answer, or responding.
SourceBOffTheLoop ==
    \A t, u \in Threads :
        (t # u /\ req[t].kind \in HttpKinds /\ pc[t] \in DarelPcs
               /\ pc[u] \in {"idle", "depo", "respond", "done"})
            => ENABLED HttpStep(u)

\* While one request's search POST was outstanding, a request for source A
\* alone has run to its response.
SourceBOffTheLoopWitness ==
    \E t, u \in Threads :
        /\ t # u
        /\ req[t].kind = "darel_get"
        /\ pc[t] = "post"
        /\ req[u].kind = "search"
        /\ Src(req[u]) = "depo"
        /\ pc[u] = "done"
        /\ resp[u].kind = "returned"
        /\ Len(resp[u].val.results) = 2

\* C19: two executions of the same /search request for both sources (same
\* query, selector and limit) that got the same answer from source A and
\* were served by the same upstream B end the same way, with result lists
\* equal in content and order, whatever the credential cache held when each
\* began and whether its acquisition succeeded.
SearchDeterminism ==
    \A t, u \in Threads :
        (/\ pc[t] = "done" /\ pc[u] = "done"
         /\ req[t].kind = "search" /\ Src(req[t]) = "both"
         /\ req[t] = req[u]
         /\ ares[t] = ares[u])
            => resp[t] = resp[u]

\* The same search ended twice with the same four records, once after a
\* cache hit and once after a failed acquisition.
SearchDeterminismWitness ==
    \E t, u \in Threads :
        /\ pc[t] = "done" /\ pc[u] = "done"
        /\ req[t].kind = "search" /\ req[t] = req[u]
        /\ ares[t] = ares[u]
        /\ frame[t].hit
        /\ frame[u].outcome.kind = "raise"
        /\ resp[t].kind = "returned"
        /\ Len(resp[t].val.results) = 4
        /\ resp[u] = resp[t]

\* Entry i carries a VAT-inclusive price of the tier.
Priced(entries, tier, i) == entries[i].tier = tier /\ entries[i].vat.some

\* The least index of an entry of the tier that carries a price.
FirstPriced(entries, tier) ==
    CHOOSE i \in 1 .. Len(entries) :
        /\ Priced(entries, tier, i)
        /\ \A j \in 1 .. (i - 1) : ~Priced(entries, tier, j)

\* C20: the resolved price of a list of price entries is the VAT-inclusive
\* price of the first promotional entry that has one, wherever in the list
\* it stands; without any, that of the first standard entry that has one;
\* without any, the "not available" sentinel.
TierPriorityPrice ==
    priced.pc = "done" =>
        LET es == priced.entries IN
        IF \E i \in 1 .. Len(es) : Priced(es, "promo", i)
        THEN priced.price = es[FirstPriced(es, "promo")].vat
        ELSE IF \E i \in 1 .. Len(es) : Priced(es, "standard", i)
        THEN priced.price = es[FirstPriced(es, "standard")].vat
        ELSE ~priced.price.some /\ priced.price.text = "not available"

\* [standard: 10, promo: 7] resolved to 7.
TierPriorityPriceWitness ==
    /\ priced.pc = "done"
    /\ priced.entries = << PriceEntry("standard", Some(10)), PriceEntry("promo", Some(7)) >>
    /\ priced.price = Some(7)

\* The records of a sequence.
Range(seq) == { seq[i] : i \in 1 .. Len(seq) }

\* Thread t's call has made the upstream call op.
Called(t, op) == \E i \in 1 .. Len(log[t]) : log[t][i].op = op

\* The records thread t's call has fetched from the upstreams so far.
FetchedNow(t) ==
    (IF Called(t, "depo") THEN Range(ares[t].records) ELSE {})
        \cup (IF Called(t, "POST") /\ postResp[t].kind = "response"
               THEN Range(HandlePost(postResp[t]).results) ELSE {})

\* C21: nothing of a call outlives it except the credential cache: once a
\* call is over, every per-call value (arguments, locals, client jar,
\* upstream answers, result lists, response) is what it was before the
\* first call; and every record of a /search or GET /darel response is a
\* record fetched from an upstream during that very call.
NoCrossRequestState ==
    \A t \in Threads :
        /\ pc[t] = "idle" =>
               /\ req[t] = NoReq /\ frame[t] = NoFrame /\ log[t] = <<>>
               /\ jar[t] = {} /\ postResp[t] = NoPost /\ dres[t] = NoDres
               /\ ares[t] = NoAres /\ results[t] = NoResults /\ resp[t] = NoResp
        /\ (pc[t] = "done" /\ resp[t].kind = "returned"
                /\ req[t].kind \in {"search", "darel_get"}) =>
               \A i \in 1 .. Len(resp[t].val.results) :
                   Untagged(resp[t].val.results[i]) \in FetchedNow(t)

\* A request served with the credential an earlier request had stored
\* returned the records of its own POST.
NoCrossRequestStateWitness ==
    \E t \in Threads :
        /\ pc[t] = "done"
        /\ req[t].kind = "search"
        /\ frame[t].hit
        /\ resp[t].kind = "returned"
        /\ Len(resp[t].val.results) = 2

\* The operations of thread t's source B fetch, in the order they happened.
DarelOps(t) ==
    LET calls == SelectSeq(log[t], LAMBDA e : e.op \in {"cookies", "GET", "POST"})
    IN [i \in 1 .. Len(calls) |-> calls[i].op]

IsPrefix(s, full) == Len(s) <= Len(full) /\ \A i \in 1 .. Len(s) : s[i] = full[i]

\* C22: in every source B fetch the credential is requested first, the
\* returned cookies are loaded into the client's jar, then exactly one
\* priming GET and after it exactly one search POST are sent with that same
\* jar; with no credential the GET and the POST are sent with an empty jar.
SourceBRequestProtocol ==
    \A t \in Threads :
        /\ IsPrefix(DarelOps(t), <<"cookies", "GET", "POST">>)
        /\ (pc[t] \in {"respond", "done"} /\ Called(t, "cookies")) =>
               /\ DarelOps(t) = <<"cookies", "GET", "POST">>
               /\ \A i \in 1 .. Len(log[t]) :
                      log[t][i].op \in {"GET", "POST"} =>
                          log[t][i].jar = LoadJar(frame[t].ret)

\* The POST of thread t's fetch was answered 2xx with a JSON object.
Answered(t) ==
    /\ postResp[t].kind = "response"
    /\ IsSuccess(postResp[t].status)
    /\ postResp[t].body.json
    /\ postResp[t].body.val.t = "obj"

\* The entries of a `products` array that are JSON objects, in array order.
ObjectEntries(list) == SelectSeq(list, LAMBDA e : e.t = "obj")

\* C23: on a 2xx answer with a `products` array the fetch yields exactly one
\* record per object entry, in array order, skipping the other entries
\* without raising; an answer without `products` yields an empty list and no
\* error message.
EntryFiltering ==
    \A t \in Threads :
        Answered(t) =>
            LET o == postResp[t].body.val.o IN
            /\ ("products" \in DOMAIN o /\ o["products"].t = "arr") =>
                   LET objs == ObjectEntries(o["products"].a) IN
                   /\ dres[t].raised = ""
                   /\ Len(dres[t].results) = Len(objs)
                   /\ \A i \in 1 .. Len(objs) :
                          dres[t].results[i].id_product = Get(objs[i], "id_product")
            /\ "products" \notin DOMAIN o =>
                   dres[t] = DarelOk(<<>>, None)

\* v[k] when v is an object holding k, and null in every other case.
Dig(v, k) == IF v.t = "obj" /\ k \in DOMAIN v.o THEN v.o[k] ELSE JNull

\* The six places a thumbnail URL is looked for in entry p, in priority order.
ThumbCandidates(p) ==
    LET cover == Dig(p, "cover")
        by_size == Dig(cover, "bySize")
    IN << Dig(Dig(by_size, "home_default"), "url"),
          Dig(Dig(by_size, "medium_default"), "url"),
          Dig(Dig(by_size, "small_default"), "url"),
          Dig(Dig(cover, "medium"), "url"),
          Dig(Dig(cover, "small"), "url"),
          Dig(Dig(cover, "large"), "url") >>

\* thumb is what the priority order selects from the candidates.
FirstPresent(cands, thumb) ==
    IF \E i \in 1 .. Len(cands) : JTruthy(cands[i])
    THEN \E i \in 1 .. Len(cands) :
             /\ JTruthy(cands[i])
             /\ \A j \in 1 .. i - 1 : ~JTruthy(cands[j])
             /\ thumb = cands[i]
    ELSE ~JTruthy(thumb)

\* C24: every product entry's thumbnail is the first present URL in the
\* order bySize.home_default, bySize.medium_default, bySize.small_default,
\* medium, small, large of its cover, absent when there is none, and no
\* shape of the cover makes the fetch raise.
ThumbnailResolution ==
    \A t \in Threads :
        (Answered(t) /\ Dig(postResp[t].body.val, "products").t = "arr") =>
            LET objs == ObjectEntries(Dig(postResp[t].body.val, "products").a) IN
            /\ dres[t].raised # "AttributeError"
            /\ \A i \in 1 .. Len(dres[t].results) :
                   FirstPresent(ThumbCandidates(objs[i]), dres[t].results[i].thumbnail)

\* The search page was requested through `via` during the call.
Requested(via) == \E i \in 1 .. Len(scrape.calls) : scrape.calls[i].via = via

\* C25: search_products answers an empty or whitespace-only query with the
\* error text and no request at all; otherwise the limit in force is the
\* requested one clamped to [1, 50], at most that many detail pages are
\* fetched and at most that many products listed; the plain HTTP request is
\* made only when the browser is missing or gave no content, and when both
\* fail the tool returns its error text.
SearchProductsBounds ==
    scrape.pc \notin {"none", "call"} =>
        IF scrape.query = "" \/ scrape.query = " "
        THEN /\ scrape.pc = "done"
             /\ scrape.out.kind = "error_empty"
             /\ scrape.calls = <<>>
             /\ scrape.fetched = <<>>
        ELSE /\ scrape.lim \in 1 .. 50
             /\ scrape.limit \in 1 .. 50 => scrape.lim = scrape.limit
             /\ scrape.limit < 1 => scrape.lim = 1
             /\ scrape.limit > 50 => scrape.lim = 50
             /\ Len(scrape.fetched) <= scrape.lim
             /\ scrape.out.kind = "results" => Len(scrape.out.listed) <= scrape.lim
             /\ Requested("http") =>
                    \/ ~scrape.HAS_PLAYWRIGHT /\ ~Requested("browser")
                    \/ /\ scrape.calls[1].via = "browser"
                       /\ \/ ~scrape.calls[1].got.some
                          \/ scrape.calls[1].got.val.empty
             /\ Len(scrape.calls) <= 2
             /\ (scrape.pc = "done" /\ ~scrape.html.some) =>
                    /\ Requested("http")
                    /\ scrape.out.kind = "error_unavailable"

SearchProductsBoundsWitness ==
    /\ scrape.pc = "done"
    /\ scrape.query = "hammer"
    /\ scrape.limit = 2
    /\ Requested("browser") /\ Requested("http")
    /\ Len(scrape.fetched) = 2
    /\ scrape.html.val.links = 3
    /\ scrape.out.kind = "results"
    /\ Len(scrape.out.listed) = 2

\* Thread t's call missed the cache and is running the browser acquisition.
Acquiring(t) == pc[t] = "browser"

\* C26: of the source B fetches running concurrently on an empty or expired
\* cache at most one is in the browser acquisition at any time, and only one
\* of them acquires at all: no two calls in progress hold an acquisition of
\* their own.
SingleFlightAcquisition ==
    \A t1, t2 \in Threads :
        t1 # t2 =>
            /\ ~(Acquiring(t1) /\ Acquiring(t2))
            /\ ~(/\ pc[t1] \in {"browser", "w_cookies", "w_expires"}
                 /\ pc[t2] \in {"browser", "w_cookies", "w_expires"})

\* No call is between the two writes of lines 51 and 52.
BetweenCalls == \A t \in Threads : pc[t] # "w_expires"

\* C27: under sequential calls the cache is the initial pair or a non-empty
\* cookie list with the storing call's clock reading plus 1800 as expiry; an
\* empty list is never stored, and expires_at never falls below the value a
\* call found.
CredentialCacheInvariant ==
    /\ BetweenCalls =>
           \/ cache = InitCache
           \/ /\ Truthy(cache.cookies)
              /\ cache.expires_at = storedAt + 1800
              /\ storedAt <= clock
    /\ cache.cookies.some => Len(cache.cookies.val) > 0
    /\ \A t \in Threads : frame[t].snapCache.expires_at <= cache.expires_at

CredentialCacheInvariantWitness ==
    /\ BetweenCalls
    /\ acquisitions >= 2
    /\ cacheBy.cookies = acquisitions
    /\ storedAt > 0
    /\ cache.expires_at = storedAt + 1800
    /\ \E t \in Threads : /\ frame[t].snapCache # InitCache
                          /\ frame[t].snapCache.expires_at < cache.expires_at

\* Thread t's call has left the cache test of line 21 behind without a valid
\* credential in the cache it found.
MissedCache(t) ==
    /\ Called(t, "cookies")
    /\ pc[t] \in {"browser", "w_cookies", "w_expires"} \cup AfterCookies
    /\ ~(/\ Truthy(frame[t].snapCache.cookies)
         /\ frame[t].snapCache.expires_at > frame[t].now)

\* C28: a call whose acquisition fails or yields no cookies leaves both
\* fields of the cache as it found them and returns no credential, not even
\* an expired one still stored; and a failure is not remembered: every call
\* that finds no valid credential enters the acquisition anew.
FailedAcquisitionLeavesCache ==
    \A t \in Threads :
        /\ AcquisitionFailed(t) =>
               /\ cache = frame[t].snapCache
               /\ storedAt = frame[t].snapStoredAt
               /\ frame[t].ret = None
        /\ MissedCache(t) =>
               /\ frame[t].id = frame[t].snapAcq + 1
               /\ acquisitions >= frame[t].id
               /\ frame[t].outcome.kind # "none" \/ pc[t] = "browser"

FailedAcquisitionLeavesCacheWitness ==
    \E t \in Threads :
        /\ AcquisitionFailed(t)
        /\ Truthy(cache.cookies)
        /\ cache.expires_at <= frame[t].now
        /\ lastOutcome = "failed"
        /\ frame[t].id = 3
        /\ cacheBy.cookies = 1
        /\ pc[t] = "done"

\* C29: a finished /search request has called source A exactly if its
\* lower-cased selector (both when omitted) is depo or both, and source B
\* exactly if it is darel or both; for any other selector it made no upstream
\* call and answered {"results": []}.
SourceSelectorDispatch ==
    \A t \in Threads :
        (req[t].kind = "search" /\ pc[t] = "done") =>
            /\ Called(t, "depo") <=> Src(req[t]) \in {"depo", "both"}
            /\ Called(t, "cookies") <=> Src(req[t]) \in {"darel", "both"}
            /\ Src(req[t]) \notin {"depo", "darel", "both"} =>
                   /\ log[t] = <<>>
                   /\ resp[t] = Returned([results |-> <<>>])


====
